---- MODULE Spec2Model ----
(***************************************************************************)
(* Model of the audio-transcription worker (src/src/index.js).  The file   *)
(* holds two deployments of the worker: the two-provider one (WhisperX +   *)
(* Pyannote on Replicate, lines 1-369) and the single-provider one         *)
(* (RunPod, lines 371-672).  The variable `mode` says which one runs.      *)
(* Each request handler is a process whose steps are its awaited store     *)
(* operations; the buckets are the only state shared between handlers.     *)
(***************************************************************************)
EXTENDS Integers, Sequences, FiniteSets, TLC

VARIABLES mode, slackUrl, appsScriptUrl, audioBucket, resultBucket,
          providerCalls, upload, hook, download, retry

vars == <<mode, slackUrl, appsScriptUrl, audioBucket, resultBucket,
          providerCalls, upload, hook, download, retry>>

(* ------------------------------ bounds --------------------------------- *)
MaxJobs == 1          \* upload requests (each draws a fresh job id)
MaxHandlers == 2      \* webhook handler instances running at the same time
MaxEstimate == 3      \* largest speaker estimate a caller supplies

(* ------------------------- program constants --------------------------- *)
DefaultMaxRetries == 3     \* retryFetch(url, options, maxRetries = 3)
BaseDelay == 1000          \* setTimeout(r, 1000 * (i + 1))

None == "none"
Modes == {"dual", "single"}
Slots == 1..MaxJobs
Handlers == 1..MaxHandlers
\* job ids a callback URL can carry: the allocated ones and one never allocated
HookJobs == 1..(MaxJobs + 1)

(* ------------------------------ helpers -------------------------------- *)
\* R2 put: creates the object or overwrites the one at the same key
Put(bucket, key, obj) ==
    [k \in DOMAIN bucket \cup {key} |-> IF k = key THEN obj ELSE bucket[k]]

\* R2 get/head: null when the key is absent
Exists(bucket, key) == key \in DOMAIN bucket

\* JSON.stringify(value, null, 2) / JSON.stringify(value)
JSONStringify(value, indent) == [json |-> value, indent |-> indent]

\* JSON.parse(text)
JSONParse(text) == text.json

\* x || fallback  on strings (null, undefined and "" are falsy)
OrElse(x, fallback) == IF x = None \/ x = "" THEN fallback ELSE x

\* crypto.randomUUID(): a fresh id per upload; slot u draws id u
Id(issuer, n) == [issuer |-> issuer, n |-> n]
NoId == Id(None, 0)

\* `projects/${client}/${vid}/${jobId}.wav`
AudioFileName(client, vid, job) ==
    [kind |-> "media", client |-> client, vid |-> vid, job |-> job]

\* `jobs/${jobId}.json`
JobInfoPath(job) ==
    [kind |-> "jobs", client |-> None, vid |-> None, job |-> job]

\* a result file numbered by the objects already stored, not by the job
ResultPathNumbered(client, vid, type, job) ==
    [client |-> client, vid |-> vid, tag |-> type,
     job |-> job + Cardinality(DOMAIN resultBucket)]

\* `projects/${client}/${vid}/${type}_${jobId}.json`
ResultPath(client, vid, type, job) ==
    [client |-> client, vid |-> vid, tag |-> type, job |-> job]

(* ------------------------- resilient HTTP client ----------------------- *)
Outcomes == {"ok", "c4xx", "s5xx", "throw"}
OutcomeSeqs(n) == [1..n -> Outcomes]

\* a wait that does not grow with the attempt
DelayFlat(i) == BaseDelay

\* setTimeout(r, 1000 * (i + 1)): the wait after attempt index i
Delay(i) == BaseDelay * (i + 1)

\* a server error retried on every attempt
Retry5xxAlways(o, i, maxRetries) == o = "s5xx"

\* response.status >= 500 && i < maxRetries - 1
Retry5xx(o, i, maxRetries) == o = "s5xx" /\ i < maxRetries - 1

\* The for loop of retryFetch from attempt index i (0-based); outs[i+1] is
\* what the i-th call of fetch does.
RECURSIVE RetryLoop(_, _, _, _)
RetryLoop(outs, i, maxRetries, delays) ==
    IF i >= maxRetries
    THEN [kind |-> "undefined", status |-> None, attempts |-> i, delays |-> delays]
    ELSE LET o == outs[i + 1] IN
         IF o = "throw"
         THEN IF i = maxRetries - 1
              THEN [kind |-> "throw", status |-> None,
                    attempts |-> i + 1, delays |-> delays]
              ELSE RetryLoop(outs, i + 1, maxRetries, Append(delays, Delay(i)))
         ELSE IF o = "ok"
              THEN [kind |-> "response", status |-> o,
                    attempts |-> i + 1, delays |-> delays]
              ELSE IF Retry5xx(o, i, maxRetries)
                   THEN RetryLoop(outs, i + 1, maxRetries, Append(delays, Delay(i)))
                   ELSE [kind |-> "response", status |-> o,
                         attempts |-> i + 1, delays |-> delays]

RetryFetch(outs, maxRetries) == RetryLoop(outs, 0, maxRetries, <<>>)

\* a call of retryFetch: what the target does on each call of fetch, the
\* attempt limit, and the outcome once the call has ended
NoResult == [kind |-> None, status |-> None, attempts |-> 0, delays |-> <<>>]
IdleRetry == [pc |-> "idle", outs |-> <<>>, maxRetries |-> 0, result |-> NoResult]

\* no download request has been answered yet
NoPath == [kind |-> None, client |-> None, vid |-> None, job |-> 0]
NoDownload == [status |-> 0, body |-> None, contentType |-> None, path |-> NoPath]

\* a test that takes every response for a success
ResponseOkAnyStatus(r) == r.kind = "response"

\* response.ok of what retryFetch gave back (a throw never reaches the test)
ResponseOk(r) == r.kind = "response" /\ r.status = "ok"

(* ------------------------------ uploads -------------------------------- *)
\* formData.get('audio'): absent, or a file with its bytes and its type
\* (type "" when the client gave none)
Audios == { [present |-> FALSE, bytes |-> None, type |-> ""],
            [present |-> TRUE, bytes |-> "b1", type |-> ""],
            [present |-> TRUE, bytes |-> "b1", type |-> "audio/mpeg"] }

\* formData.get('num_speakers') of a caller that gives an estimate: the
\* decimal numeral of a positive integer
Estimates == 1..MaxEstimate
NumSpeakersFields == {ToString(e) : e \in Estimates}

\* the multipart fields handleUpload reads; num_speakers is read by the
\* two-provider deployment only
UploadReqs(m) ==
    [audio : Audios, client : {None, "c1", "c 1"}, vid : {None, "v1"},
     numSpeakers : IF m = "dual" THEN {None} \cup NumSpeakersFields ELSE {None}]

NoReq == [audio |-> [present |-> FALSE, bytes |-> None, type |-> ""],
          client |-> None, vid |-> None, numSpeakers |-> None]

\* parseInt on the decimal numerals the model draws
ParseInt(s) == CHOOSE n \in Estimates : ToString(n) = s

Max(a, b) == IF a >= b THEN a ELSE b

\* a lower bound without its floor of one speaker
MinSpeakersNoFloor(numSpeakers) == ParseInt(numSpeakers) - 1

\* min_speakers: Math.max(1, parseInt(numSpeakers) - 1)
MinSpeakers(numSpeakers) == Max(1, ParseInt(numSpeakers) - 1)
\* max_speakers: parseInt(numSpeakers) + 2
MaxSpeakers(numSpeakers) == ParseInt(numSpeakers) + 2

\* jsonResponse(data, status); status 0 while the handler has not answered
NoResp == [status |-> 0, error |-> None, jobId |-> NoId,
           whisperxId |-> NoId, pyannoteId |-> NoId]
ErrorResp(status, msg) == [NoResp EXCEPT !.status = status, !.error = msg]

IdleUpload == [pc |-> "idle", req |-> NoReq, whisperxId |-> NoId,
               pyannoteId |-> NoId, resp |-> NoResp]

\* one outbound dispatch call as the provider saw it
ProviderCall(provider, op, job, audio, webhookType, minS, maxS, result) ==
    [provider |-> provider, op |-> op, job |-> job, audio |-> audio,
     webhookType |-> webhookType, minSpeakers |-> minS, maxSpeakers |-> maxS,
     result |-> result]

\* what a retryFetch result is to the caller: "ok", an error status, "throw"
CallResult(r) == IF r.kind = "response" THEN r.status ELSE r.kind

\* a tenancy test that rejects only when both fields are missing
ScopeMissingBoth(req) == req.client = None /\ req.vid = None

\* !client || !vid
ScopeMissing(req) == req.client = None \/ req.vid = None

\* handleUpload up to the media put: field validation, job id, R2 upload
UploadStart(u, req) ==
    /\ upload[u].pc = "idle"
    /\ \A v \in Slots : v < u => upload[v].pc # "idle"
    /\ IF ~req.audio.present
       THEN /\ upload' = [upload EXCEPT ![u] = [@ EXCEPT !.pc = "done",
                            !.req = req, !.resp = ErrorResp(400, "No audio file")]]
            /\ UNCHANGED audioBucket
       ELSE IF ScopeMissing(req)
       THEN /\ upload' = [upload EXCEPT ![u] = [@ EXCEPT !.pc = "done",
                            !.req = req,
                            !.resp = ErrorResp(400, "client and vid are required")]]
            /\ UNCHANGED audioBucket
       ELSE IF mode = "dual" /\ req.numSpeakers = None
       THEN /\ upload' = [upload EXCEPT ![u] = [@ EXCEPT !.pc = "done",
                            !.req = req,
                            !.resp = ErrorResp(400, "num_speakers is required")]]
            /\ UNCHANGED audioBucket
       ELSE /\ audioBucket' = Put(audioBucket,
                                  AudioFileName(req.client, req.vid, u),
                                  [body |-> req.audio.bytes,
                                   contentType |-> OrElse(req.audio.type, "audio/wav")])
            /\ upload' = [upload EXCEPT ![u] = [@ EXCEPT !.req = req,
                            !.pc = IF mode = "dual" THEN "whisperx" ELSE "runpod"]]
    /\ UNCHANGED <<download, retry, mode, slackUrl, appsScriptUrl,
                   resultBucket, providerCalls, hook>>

\* the WhisperX prediction: retryFetch, then the response.ok test
UploadWhisperx(u) ==
    /\ upload[u].pc = "whisperx"
    /\ \E outs \in OutcomeSeqs(DefaultMaxRetries) :
         LET r == RetryFetch(outs, DefaultMaxRetries)
             req == upload[u].req
         IN /\ providerCalls' = providerCalls \cup
                  {ProviderCall("whisperx", "create", u,
                                AudioFileName(req.client, req.vid, u),
                                "whisperx", 0, 0, CallResult(r))}
            /\ IF ResponseOk(r)
               THEN upload' = [upload EXCEPT ![u] = [@ EXCEPT !.pc = "pyannote",
                                 !.whisperxId = Id("whisperx", u)]]
               ELSE upload' = [upload EXCEPT ![u] = [@ EXCEPT !.pc = "done",
                                 !.resp = ErrorResp(500, "Replicate WhisperX error")]]
    /\ UNCHANGED <<download, retry, mode, slackUrl, appsScriptUrl,
                   audioBucket, resultBucket, hook>>

\* the Pyannote prediction with the speaker bounds
UploadPyannote(u) ==
    /\ upload[u].pc = "pyannote"
    /\ \E outs \in OutcomeSeqs(DefaultMaxRetries) :
         LET r == RetryFetch(outs, DefaultMaxRetries)
             req == upload[u].req
         IN /\ providerCalls' = providerCalls \cup
                  {ProviderCall("pyannote", "create", u,
                                AudioFileName(req.client, req.vid, u),
                                "pyannote", MinSpeakers(req.numSpeakers),
                                MaxSpeakers(req.numSpeakers), CallResult(r))}
            /\ IF ResponseOk(r)
               THEN upload' = [upload EXCEPT ![u] = [@ EXCEPT !.pc = "record",
                                 !.pyannoteId = Id("pyannote", u)]]
               ELSE upload' = [upload EXCEPT ![u] = [@ EXCEPT !.pc = "done",
                                 !.resp = ErrorResp(500, "Replicate Pyannote error")]]
    /\ UNCHANGED <<download, retry, mode, slackUrl, appsScriptUrl,
                   audioBucket, resultBucket, hook>>

\* the body of jobs/{jobId}.json (createdAt, a wall-clock stamp, left out)
JobInfo(u, up) ==
    [jobId |-> Id("worker", u), whisperxId |-> up.whisperxId,
     pyannoteId |-> up.pyannoteId, client |-> up.req.client,
     vid |-> up.req.vid, numSpeakers |-> up.req.numSpeakers]

\* the Job Record put and the 200 answer
UploadRecord(u) ==
    /\ upload[u].pc = "record"
    /\ audioBucket' = Put(audioBucket, JobInfoPath(u),
                          [body |-> JSONStringify(JobInfo(u, upload[u]), 0),
                           contentType |-> "application/json"])
    /\ upload' = [upload EXCEPT ![u] = [@ EXCEPT !.pc = "done",
                     !.resp = [status |-> 200, error |-> None,
                               jobId |-> Id("worker", u),
                               whisperxId |-> upload[u].whisperxId,
                               pyannoteId |-> upload[u].pyannoteId]]]
    /\ UNCHANGED <<download, retry, mode, slackUrl, appsScriptUrl,
                   resultBucket, providerCalls, hook>>

\* single-provider deployment: the RunPod run call and the answer;
\* runpodData.id may be missing from the provider's reply
UploadRunpod(u) ==
    /\ upload[u].pc = "runpod"
    /\ \E outs \in OutcomeSeqs(DefaultMaxRetries), rid \in {NoId, Id("runpod", u)} :
         LET r == RetryFetch(outs, DefaultMaxRetries)
             req == upload[u].req
         IN /\ providerCalls' = providerCalls \cup
                  {ProviderCall("runpod", "run", u,
                                AudioFileName(req.client, req.vid, u),
                                None, 0, 0, CallResult(r))}
            /\ IF ResponseOk(r)
               THEN upload' = [upload EXCEPT ![u] = [@ EXCEPT !.pc = "done",
                                 !.resp = [NoResp EXCEPT !.status = 200,
                                    !.jobId = IF rid # NoId THEN rid
                                              ELSE Id("worker", u)]]]
               ELSE /\ rid = NoId
                    /\ upload' = [upload EXCEPT ![u] = [@ EXCEPT !.pc = "done",
                                 !.resp = ErrorResp(500, "RunPod error")]]
    /\ UNCHANGED <<download, retry, mode, slackUrl, appsScriptUrl,
                   audioBucket, resultBucket, hook>>

handleUpload ==
    \E u \in Slots :
        \/ \E req \in UploadReqs(mode) : UploadStart(u, req)
        \/ UploadWhisperx(u)
        \/ UploadPyannote(u)
        \/ UploadRecord(u)
        \/ UploadRunpod(u)

(* ------------------------------ callbacks ------------------------------ *)
Providers == {"whisperx", "pyannote"}

\* url.searchParams.get('type'): the two discriminators dispatch hands out
\* and one value that is neither (absent or unexpected); the single-provider
\* handler never reads it
Types(m) == IF m = "dual" THEN Providers \cup {"other"} ELSE {None}

\* data.status === 'succeeded' (Replicate) / 'COMPLETED' (RunPod)
SuccessSentinel(m) == IF m = "dual" THEN "succeeded" ELSE "COMPLETED"

Outputs == {"o1"}

\* data.input of a RunPod callback: absent, or the fields dispatch sent
PayloadInputs(m) ==
    IF m = "dual" THEN {[client |-> None, vid |-> None]}
    ELSE {[client |-> None, vid |-> None], [client |-> "c1", vid |-> "v1"]}

\* request.json(): status, output (none on a failed run) and input
Payloads(m) ==
    { [status |-> SuccessSentinel(m), output |-> o, input |-> i] :
          o \in Outputs, i \in PayloadInputs(m) }
    \cup { [status |-> "failed", output |-> None, input |-> i] :
          i \in PayloadInputs(m) }

NoData == [status |-> None, output |-> None,
           input |-> [client |-> None, vid |-> None]]

IdleHook == [pc |-> "idle", job |-> 0, type |-> None, data |-> NoData,
             client |-> None, vid |-> None,
             whisperxExists |-> FALSE, pyannoteExists |-> FALSE,
             arrivedComplete |-> FALSE,
             sent |-> <<>>, handoff |-> None, resp |-> None]

\* a fetch to the chat sink resolves (the code never reads the response, so
\* an error status counts as resolved) or throws
SlackOutcomes == {"ok", "throw"}
\* the Apps Script call: {success: true}, a reply without success (an error
\* status included), or a throw of fetch / gasResponse.json()
GasOutcomes == {"success", "fail", "throw"}

\* What a handler has done on its side channels so far: the posts made to
\* the chat sink (their kinds, in order), the outcome of the handoff call if
\* one was made, whether the last call threw, and the answer.
NewRun == [sent |-> <<>>, handoff |-> None, threw |-> FALSE, resp |-> None]

\* fetch(env.SLACK_WEBHOOK_URL, ...): throws on a missing URL
slackFetch(run, kind, o) ==
    IF ~slackUrl
    THEN [run EXCEPT !.threw = TRUE]
    ELSE [run EXCEPT !.sent = Append(@, kind), !.threw = (o = "throw")]

\* sendSlack(env, jobId, status, ...): the two-provider deployment returns
\* at once when SLACK_WEBHOOK_URL is not set, the single-provider one has
\* no such test
sendSlack(run, kind, o) ==
    IF mode = "dual" /\ ~slackUrl
    THEN [run EXCEPT !.threw = FALSE]
    ELSE slackFetch(run, kind, o)

\* the outer catch of handleWebhook: sendSlack 'ERROR', then 500
Catch(run, o) ==
    LET s == sendSlack(run, "ERROR", o)
    IN [s EXCEPT !.resp = IF s.threw THEN "exception" ELSE "500"]

\* the paths whose presence makes the job complete
ExpectedPaths(m, client, vid, job) ==
    IF m = "dual"
    THEN {ResultPath(client, vid, p, job) : p \in Providers}
    ELSE {ResultPath(client, vid, "segments", job)}

\* every result filed under the first provider's tag
OwnTagWhisperx(m, type) == "whisperx"

\* the tag in the file name of the handler's own result
OwnTag(m, type) == IF m = "dual" THEN type ELSE "segments"

\* a completion test that is content with one of the two results
BothExistEither(w, p) == w \/ p

\* whisperxExists && pyannoteExists
BothExist(w, p) == w /\ p

\* a whisperx check that looks at the handler's own result instead
whisperxPathOwn(hk) == ResultPath(hk.client, hk.vid, hk.type, hk.job)

\* whisperxPath
whisperxPath(hk) == ResultPath(hk.client, hk.vid, "whisperx", hk.job)

\* a pyannote path that names no stored object
pyannnotePathMisspelt(hk) == ResultPath(hk.client, hk.vid, "pyannnote", hk.job)

\* pyannnotePath
pyannnotePath(hk) == ResultPath(hk.client, hk.vid, "pyannote", hk.job)

\* handleWebhook up to its first store operation: the payload status test
\* (failure: notify and acknowledge) and, with two providers, the Job Record
\* lookup that supplies client and vid
HookStart(h, job, type, data) ==
    /\ hook[h].pc = "idle"
    /\ \A g \in Handlers : g < h => hook[g].pc # "idle"
    /\ IF data.status # SuccessSentinel(mode)
       THEN \E o1 \in SlackOutcomes, o2 \in SlackOutcomes :
              LET s == sendSlack(NewRun, "FAILED", o1)
                  r == IF s.threw THEN Catch(s, o2) ELSE [s EXCEPT !.resp = "200"]
              IN hook' = [hook EXCEPT ![h] = [IdleHook EXCEPT !.pc = "done",
                      !.job = job, !.type = type, !.data = data,
                      !.sent = r.sent, !.resp = r.resp]]
       ELSE IF mode = "dual"
       THEN IF ~Exists(audioBucket, JobInfoPath(job))
            THEN hook' = [hook EXCEPT ![h] = [IdleHook EXCEPT !.pc = "done",
                      !.job = job, !.type = type, !.data = data,
                      !.resp = "404"]]
            ELSE LET jobInfo == JSONParse(audioBucket[JobInfoPath(job)].body)
                 IN hook' = [hook EXCEPT ![h] = [IdleHook EXCEPT !.pc = "put",
                      !.job = job, !.type = type, !.data = data,
                      !.client = jobInfo.client, !.vid = jobInfo.vid,
                      !.arrivedComplete =
                          ExpectedPaths(mode, jobInfo.client, jobInfo.vid, job)
                              \subseteq DOMAIN resultBucket]]
       ELSE LET client == OrElse(data.input.client, "unknown")
                vid == OrElse(data.input.vid, "unknown")
            IN hook' = [hook EXCEPT ![h] = [IdleHook EXCEPT !.pc = "put",
                      !.job = job, !.type = type, !.data = data,
                      !.client = client, !.vid = vid,
                      !.arrivedComplete =
                          ExpectedPaths(mode, client, vid, job)
                              \subseteq DOMAIN resultBucket]]
    /\ UNCHANGED <<download, retry, mode, slackUrl, appsScriptUrl,
                   audioBucket, resultBucket,
                   providerCalls, upload>>

\* the path of the handler's own Partial Result
OwnPath(hk) == ResultPath(hk.client, hk.vid, OwnTag(mode, hk.type), hk.job)

\* every deployment looks for the results of two providers
AfterPutHeads(m) == "headW"

\* what follows the put: the two head calls of the two-provider deployment,
\* or at once the completion branch of the single-provider one
AfterPut(m) == IF m = "dual" THEN "headW" ELSE "complete"

\* the result stored over the Job Record of its job
HookPutOverJobInfo(h) ==
    /\ hook[h].pc = "put"
    /\ audioBucket' = Put(audioBucket, JobInfoPath(hook[h].job),
                          [body |-> JSONStringify(hook[h].data.output, 2),
                           contentType |-> "application/json"])
    /\ hook' = [hook EXCEPT ![h].pc = AfterPut(mode)]
    /\ UNCHANGED <<download, retry, mode, slackUrl, appsScriptUrl, resultBucket,
                   providerCalls, upload>>

\* RESULT_BUCKET.put(filePath, JSON.stringify(data.output, null, 2), ...)
HookPut(h) ==
    /\ hook[h].pc = "put"
    /\ resultBucket' = Put(resultBucket, OwnPath(hook[h]),
                           [body |-> JSONStringify(hook[h].data.output, 2),
                            contentType |-> "application/json"])
    /\ hook' = [hook EXCEPT ![h].pc = AfterPut(mode)]
    /\ UNCHANGED <<download, retry, mode, slackUrl, appsScriptUrl,
                   audioBucket, providerCalls, upload>>

\* RESULT_BUCKET.head(whisperxPath)
HookHeadWhisperx(h) ==
    /\ hook[h].pc = "headW"
    /\ hook' = [hook EXCEPT ![h].pc = "headP",
                  ![h].whisperxExists = Exists(resultBucket, whisperxPath(hook[h]))]
    /\ UNCHANGED <<download, retry, mode, slackUrl, appsScriptUrl,
                   audioBucket, resultBucket,
                   providerCalls, upload>>

\* RESULT_BUCKET.head(pyannnotePath) and the completion test; a job that is
\* not complete is acknowledged at once
HookHeadPyannote(h) ==
    /\ hook[h].pc = "headP"
    /\ LET p == Exists(resultBucket, pyannnotePath(hook[h]))
       IN hook' = [hook EXCEPT ![h].pyannoteExists = p,
                     ![h].pc = IF BothExist(hook[h].whisperxExists, p)
                               THEN "complete" ELSE "done",
                     ![h].resp = IF BothExist(hook[h].whisperxExists, p)
                                 THEN None ELSE "200"]
    /\ UNCHANGED <<download, retry, mode, slackUrl, appsScriptUrl,
                   audioBucket, resultBucket,
                   providerCalls, upload>>

\* the Apps Script fetch and gasResponse.json()
Handoff(run, g) == [run EXCEPT !.handoff = g, !.threw = (g = "throw")]

\* two-provider completion: sendSlack 'SUCCESS', then the Apps Script handoff
\* in its own try/catch (the "Drive" post is a bare fetch inside that try)
CompleteDual(g, o) ==
    LET s == sendSlack(NewRun, "SUCCESS", o[1])
    IN IF s.threw THEN Catch(s, o[2])
       ELSE IF ~appsScriptUrl THEN [s EXCEPT !.resp = "200"]
       ELSE LET a == Handoff(s, g)
            IN IF g = "success"
               THEN [slackFetch(a, "DRIVE_SUCCESS", o[2]) EXCEPT !.resp = "200"]
               ELSE [a EXCEPT !.resp = "200"]

\* single-provider completion: sendSlack 'SUCCESS', then the handoff with
\* its DRIVE_SUCCESS / DRIVE_FAILED posts; the catch of that try posts
\* DRIVE_FAILED itself, outside any inner try
CompleteSingle(g, o) ==
    LET s == sendSlack(NewRun, "SUCCESS", o[1])
    IN IF s.threw THEN Catch(s, o[2])
       ELSE IF ~appsScriptUrl THEN [s EXCEPT !.resp = "200"]
       ELSE LET a == Handoff(s, g)
                t == IF g = "success" THEN sendSlack(a, "DRIVE_SUCCESS", o[2])
                     ELSE IF g = "fail" THEN sendSlack(a, "DRIVE_FAILED", o[2])
                     ELSE a
            IN IF ~t.threw THEN [t EXCEPT !.resp = "200"]
               ELSE LET f == sendSlack(t, "DRIVE_FAILED", o[3])
                    IN IF ~f.threw THEN [f EXCEPT !.resp = "200"]
                       ELSE Catch(f, o[4])

\* the completion branch: notification, optional handoff, answer
HookComplete(h) ==
    /\ hook[h].pc = "complete"
    /\ \E g \in GasOutcomes, o \in [1..4 -> SlackOutcomes] :
         LET c == IF mode = "dual" THEN CompleteDual(g, o)
                  ELSE CompleteSingle(g, o)
         IN hook' = [hook EXCEPT ![h].pc = "done", ![h].sent = c.sent,
                       ![h].handoff = c.handoff, ![h].resp = c.resp]
    /\ UNCHANGED <<download, retry, mode, slackUrl, appsScriptUrl,
                   audioBucket, resultBucket,
                   providerCalls, upload>>

\* the response is delivered and the handler instance ends
HookEnd(h) ==
    /\ hook[h].pc = "done"
    /\ hook' = [hook EXCEPT ![h] = IdleHook]
    /\ UNCHANGED <<download, retry, mode, slackUrl, appsScriptUrl,
                   audioBucket, resultBucket,
                   providerCalls, upload>>

handleWebhook ==
    \E h \in Handlers :
        \/ \E job \in HookJobs, type \in Types(mode), data \in Payloads(mode) :
              HookStart(h, job, type, data)
        \/ HookPut(h)
        \/ HookHeadWhisperx(h)
        \/ HookHeadPyannote(h)
        \/ HookComplete(h)
        \/ HookEnd(h)

(* --------------------------- specifications ---------------------------- *)
(* ------------------------------ downloads ------------------------------ *)
\* a path segment that reaches the handler as the caller wrote it
PercentEncodeNothing(s) == s

\* new URL(request.url).pathname: the URL parser percent-encodes what a
\* path may not hold as it is (a space becomes %20)
PercentEncode(s) == IF s = "c 1" THEN "c%201" ELSE s

\* url.pathname.split('/').slice(2).join('/'): the key handleDownload is
\* given for a request of /download/{path}; nothing decodes it
FileName(path) ==
    [path EXCEPT !.client = PercentEncode(@), !.vid = PercentEncode(@)]

\* the paths a caller asks for: the media paths of the job ids in play,
\* stored or not
DownloadPaths ==
    {AudioFileName(c, v, j) : c \in {"c1", "c 1"}, v \in {"v1"}, j \in HookJobs}

\* GET /download/{path}: AUDIO_BUCKET.get(fileName), 404 when there is no
\* object, else the object's body with its content type (audio/wav when the
\* object carries none)
handleDownload ==
    \E path \in DownloadPaths :
        LET fileName == FileName(path)
        IN /\ download' =
                IF ~Exists(audioBucket, fileName)
                THEN [status |-> 404, body |-> "File not found",
                      contentType |-> "text/plain", path |-> path]
                ELSE [status |-> 200, body |-> audioBucket[fileName].body,
                      contentType |-> OrElse(audioBucket[fileName].contentType,
                                             "audio/wav"),
                      path |-> path]
           /\ UNCHANGED <<retry, mode, slackUrl, appsScriptUrl, audioBucket,
                          resultBucket, providerCalls, upload, hook>>

EmptyBucket == [k \in {} |-> None]

Init ==
    /\ mode \in Modes
    /\ slackUrl \in BOOLEAN
    /\ appsScriptUrl \in BOOLEAN
    /\ audioBucket = EmptyBucket
    /\ resultBucket = EmptyBucket
    /\ providerCalls = {}
    /\ upload = [u \in Slots |-> IdleUpload]
    /\ hook = [h \in Handlers |-> IdleHook]
    /\ download = NoDownload
    /\ retry = IdleRetry

Next == handleUpload \/ handleWebhook

Spec == Init /\ [][Next]_vars

\* uploads alone
SpecUpload == Init /\ [][handleUpload]_vars

\* the media bucket after upload u of client c1 / item v1 ran to its 200
Uploaded(bucket, u) ==
    LET req == [audio |-> [present |-> TRUE, bytes |-> "b1", type |-> ""],
                client |-> "c1", vid |-> "v1", numSpeakers |-> "1"]
        up == [IdleUpload EXCEPT !.req = req, !.whisperxId = Id("whisperx", u),
                                 !.pyannoteId = Id("pyannote", u)]
        media == Put(bucket, AudioFileName("c1", "v1", u),
                     [body |-> "b1", contentType |-> "audio/wav"])
    IN IF mode = "dual"
       THEN Put(media, JobInfoPath(u),
                [body |-> JSONStringify(JobInfo(u, up), 0),
                 contentType |-> "application/json"])
       ELSE media

RECURSIVE UploadedAll(_, _)
UploadedAll(bucket, n) ==
    IF n = 0 THEN bucket ELSE Uploaded(UploadedAll(bucket, n - 1), n)

\* callbacks alone, arriving after the uploads were answered
InitWebhook ==
    /\ mode \in Modes
    /\ slackUrl \in BOOLEAN
    /\ appsScriptUrl \in BOOLEAN
    /\ audioBucket = UploadedAll(EmptyBucket, MaxJobs)
    /\ resultBucket = EmptyBucket
    /\ providerCalls = {}
    /\ upload = [u \in Slots |-> IdleUpload]
    /\ hook = [h \in Handlers |-> IdleHook]
    /\ download = NoDownload
    /\ retry = IdleRetry

SpecWebhook == InitWebhook /\ [][handleWebhook]_vars

\* callbacks delivered one after the other: a callback arrives only when no
\* other handler is running or unanswered
HookStartSeq(h, job, type, data) ==
    /\ \A g \in Handlers : hook[g].pc = "idle"
    /\ HookStart(h, job, type, data)

handleWebhookSeq ==
    \E h \in Handlers :
        \/ \E job \in HookJobs, type \in Types(mode), data \in Payloads(mode) :
              HookStartSeq(h, job, type, data)
        \/ HookPut(h)
        \/ HookHeadWhisperx(h)
        \/ HookHeadPyannote(h)
        \/ HookComplete(h)
        \/ HookEnd(h)

SpecSeq == InitWebhook /\ [][handleWebhookSeq]_vars

(* ------------------------------- claims -------------------------------- *)
Done(h) == hook[h].pc = "done"

\* the handler was handed the provider's success sentinel
Succeeded(hk) == hk.data.status = SuccessSentinel(mode)

\* the handler posted the completion notification
SentSuccess(hk) == \E i \in DOMAIN hk.sent : hk.sent[i] = "SUCCESS"

\* how many completion notifications the handler posted
SuccessCount(hk) == Cardinality({i \in DOMAIN hk.sent : hk.sent[i] = "SUCCESS"})

HasJobInfo(job) == Exists(audioBucket, JobInfoPath(job))

\* the Partial Result of provider p exists under the scope the Job Record names
Stored(job, p) ==
    /\ HasJobInfo(job)
    /\ LET info == JSONParse(audioBucket[JobInfoPath(job)].body)
       IN Exists(resultBucket, ResultPath(info.client, info.vid, p, job))

\* C1: with two providers a handler has posted the SUCCESS notification only
\* if the Partial Results of both whisperx and pyannote of its job are in the
\* result bucket, and a handler of a provider-failure callback never posts it.
C1_SuccessOnlyWhenBothStored ==
    mode = "dual" =>
        \A h \in Handlers :
            /\ SentSuccess(hook[h]) => \A p \in Providers : Stored(hook[h].job, p)
            /\ ~Succeeded(hook[h]) => ~SentSuccess(hook[h])

\* a failure callback and a completing success callback of the same job
C1_Witness ==
    /\ mode = "dual"
    /\ \E h \in Handlers, g \in Handlers :
          /\ Done(h) /\ Succeeded(hook[h]) /\ SentSuccess(hook[h])
          /\ Done(g) /\ ~Succeeded(hook[g]) /\ hook[g].job = hook[h].job
          /\ hook[g].type \in Providers

\* the success callbacks of the two providers of one job, in two handlers
Racing(h, g) ==
    /\ hook[h].pc # "idle" /\ hook[g].pc # "idle"
    /\ Succeeded(hook[h]) /\ Succeeded(hook[g])
    /\ hook[h].job = hook[g].job
    /\ hook[h].type = "whisperx" /\ hook[g].type = "pyannote"
    /\ hook[h].resp # "404" /\ hook[g].resp # "404"

\* C2: when the success callbacks of whisperx and pyannote of one job are in
\* two handlers at once, under every interleaving of their puts and heads:
\* no handler posts SUCCESS before both Partial Results are stored, none
\* posts it twice, and once both have answered at least one has posted it
\* (with a notification sink configured).
C2_RaceNeverMissedNeverPremature ==
    mode = "dual" =>
        \A h \in Handlers, g \in Handlers :
            Racing(h, g) =>
                /\ \A x \in {h, g} :
                      /\ SuccessCount(hook[x]) <= 1
                      /\ SentSuccess(hook[x]) =>
                            \A p \in Providers : Stored(hook[x].job, p)
                /\ (Done(h) /\ Done(g) /\ slackUrl) =>
                      (SentSuccess(hook[h]) \/ SentSuccess(hook[g]))

\* both handlers arrived before the job was complete and both posted SUCCESS:
\* the two puts came before either handler's heads (the duplicate)
C2_Witness ==
    /\ mode = "dual"
    /\ \E h \in Handlers, g \in Handlers :
          /\ Racing(h, g) /\ Done(h) /\ Done(g)
          /\ ~hook[h].arrivedComplete /\ ~hook[g].arrivedComplete
          /\ SentSuccess(hook[h]) /\ SentSuccess(hook[g])

Other(p) == IF p = "whisperx" THEN "pyannote" ELSE "whisperx"

\* C3: with the two success callbacks of a job delivered one after the other,
\* in either order: each handler leaves its own Partial Result stored; the
\* handler that finds the other provider's result missing (the first) posts
\* nothing, calls no handoff and answers 200; the handler that finds it (the
\* second) leaves both results stored, posts SUCCESS (with a sink configured)
\* and, where it answers 200 with a handoff endpoint configured, has called
\* the handoff.
C3_OrderIndependent ==
    mode = "dual" =>
        \A h \in Handlers :
            (Done(h) /\ Succeeded(hook[h]) /\ hook[h].type \in Providers
                     /\ HasJobInfo(hook[h].job)) =>
                /\ Stored(hook[h].job, hook[h].type)
                /\ IF Stored(hook[h].job, Other(hook[h].type))
                   THEN /\ slackUrl => SentSuccess(hook[h])
                        /\ (appsScriptUrl /\ hook[h].resp = "200")
                              => hook[h].handoff # None
                   ELSE /\ hook[h].sent = <<>>
                        /\ hook[h].handoff = None
                        /\ hook[h].resp = "200"

\* pyannote was delivered first: the whisperx handler completes the job
C3_Witness ==
    /\ mode = "dual"
    /\ \E h \in Handlers :
          /\ Done(h) /\ Succeeded(hook[h]) /\ hook[h].type = "whisperx"
          /\ ~hook[h].arrivedComplete
          /\ Stored(hook[h].job, "pyannote")
          /\ SentSuccess(hook[h]) /\ hook[h].handoff # None

\* an earlier delivery of the handler's callback left its object: same owner
\* scope, provider tag and job id, same content
AlreadyStored(hk) ==
    \E k \in DOMAIN resultBucket :
        /\ k.client = hk.client /\ k.vid = hk.vid
        /\ k.tag = OwnTag(mode, hk.type) /\ k.job = hk.job
        /\ resultBucket[k].body = JSONStringify(hk.data.output, 2)

\* C4: the put of a callback delivered again (an earlier delivery of the same
\* job id, provider tag and payload has stored its object) leaves the result
\* bucket as it was: no object added, none changed.
C4_RedeliveryLeavesBucket ==
    [][\A h \in Handlers :
          (hook[h].pc = "put" /\ hook'[h].pc # "put" /\ AlreadyStored(hook[h]))
              => resultBucket' = resultBucket]_vars

\* the same callback in two handlers, both past their put
C4_Witness ==
    \E h \in Handlers, g \in Handlers :
        /\ h # g
        /\ hook[h].pc \notin {"idle", "put"} /\ hook[g].pc \notin {"idle", "put"}
        /\ Succeeded(hook[h]) /\ hook[h].resp # "404" /\ hook[g].resp # "404"
        /\ hook[h].job = hook[g].job /\ hook[h].type = hook[g].type
        /\ hook[h].data = hook[g].data
        /\ AlreadyStored(hook[h])
        /\ Cardinality(DOMAIN resultBucket) = 1

\* C5: a success callback that arrives when its job is already complete posts
\* the SUCCESS notification again and, with a handoff endpoint configured,
\* calls the handoff again (notification sink configured).
C5_RedeliveryRepeatsSideEffects ==
    slackUrl =>
        \A h \in Handlers :
            (Done(h) /\ hook[h].arrivedComplete) =>
                /\ SentSuccess(hook[h])
                /\ appsScriptUrl => hook[h].handoff # None

\* C6: a callback whose job id has no Job Record is answered 404 and no
\* Partial Result is stored under that job id, whatever the payload status
\* and the deployment.
C6_UnknownJobNotFound ==
    \A h \in Handlers :
        (Done(h) /\ ~HasJobInfo(hook[h].job)) =>
            /\ hook[h].resp = "404"
            /\ \A k \in DOMAIN resultBucket : k.job # hook[h].job

\* the answer of a handler all of whose side calls succeed
Acknowledgement(hk) ==
    IF mode = "dual" /\ Succeeded(hk) /\ ~HasJobInfo(hk.job) THEN "404" ELSE "200"

\* C10: whatever the chat posts and the handoff call do, the handler answers
\* what it answers when they succeed: never 500, never an unhandled exception.
C10_SideFailureNeverChangesOutcome ==
    \A h \in Handlers : Done(h) => hook[h].resp = Acknowledgement(hook[h])

UploadDone(u) == upload[u].pc = "done"

\* the provider task ids in an upload's answer
ReturnedTaskIds(resp) == {resp.whisperxId, resp.pyannoteId} \ {NoId}

\* C7: an upload answered 200 returns its job id and one provider task id per
\* configured provider, and jobs/{jobId}.json then holds the same task ids.
C7_DispatchReturnsRecordedIds ==
    \A u \in Slots :
        (UploadDone(u) /\ upload[u].resp.status = 200) =>
            /\ upload[u].resp.jobId = Id("worker", u)
            /\ Cardinality(ReturnedTaskIds(upload[u].resp))
                  = (IF mode = "dual" THEN 2 ELSE 1)
            /\ HasJobInfo(u)
            /\ LET info == JSONParse(audioBucket[JobInfoPath(u)].body)
               IN /\ info.whisperxId = upload[u].resp.whisperxId
                  /\ info.pyannoteId = upload[u].resp.pyannoteId

\* the same statement of the two-provider deployment alone
C7_DualOnly == mode = "dual" => C7_DispatchReturnsRecordedIds

\* C8: an upload without the audio field, or without client or vid, is
\* answered 400 and leaves nothing behind: no media object, no provider
\* call, no Job Record.
C8_RejectionIsSideEffectFree ==
    \A u \in Slots :
        (UploadDone(u) /\ (~upload[u].req.audio.present
                           \/ upload[u].req.client = None
                           \/ upload[u].req.vid = None)) =>
            /\ upload[u].resp.status = 400
            /\ \A k \in DOMAIN audioBucket : k.job # u
            /\ \A c \in providerCalls : c.job # u

\* an upload with its audio and client but no vid has been answered
C8_Witness ==
    \E u \in Slots :
        /\ UploadDone(u) /\ upload[u].req.audio.present
        /\ upload[u].req.client # None /\ upload[u].req.vid = None
        /\ upload[u].resp.status = 400

\* C9: an upload one of whose provider calls ended without a success (error
\* status after the retries, or a throw) is answered 500 with an error
\* body, has no Job Record, and no call other than the dispatch calls was
\* made for it (no cancellation of what was dispatched).
C9_ProviderFailureFailsUpload ==
    \A u \in Slots :
        (UploadDone(u) /\ \E c \in providerCalls : c.job = u /\ c.result # "ok") =>
            /\ upload[u].resp.status = 500
            /\ upload[u].resp.error # None
            /\ ~HasJobInfo(u)
            /\ \A c \in providerCalls : c.job = u => c.op \in {"create", "run"}

\* the first provider was dispatched, the second failed
C9_Witness ==
    \E u \in Slots :
        /\ UploadDone(u) /\ upload[u].resp.status = 500
        /\ \E c \in providerCalls :
              c.job = u /\ c.provider = "whisperx" /\ c.result = "ok"
        /\ \E c \in providerCalls :
              c.job = u /\ c.provider = "pyannote" /\ c.result = "s5xx"

\* the posts a handler made after the handoff call: the "archived" and
\* "archive failed" kinds
FollowUps(hk) == SelectSeq(hk.sent, LAMBDA k : k \in {"DRIVE_SUCCESS", "DRIVE_FAILED"})

\* C11: when the job is complete and the handoff endpoint and the chat sink
\* are configured, the handoff is called and exactly one follow-up post
\* results: "archived" when the handoff answers success, "archive failed"
\* when it answers anything else or throws, in both deployments.
C11_HandoffHasOneFollowUp ==
    slackUrl /\ appsScriptUrl =>
        \A h \in Handlers :
            Done(h) /\ SentSuccess(hook[h]) /\ hook[h].sent[Len(hook[h].sent)] # "ERROR" =>
                /\ hook[h].handoff # None
                /\ FollowUps(hook[h]) = IF hook[h].handoff = "success"
                                        THEN <<"DRIVE_SUCCESS">>
                                        ELSE <<"DRIVE_FAILED">>

\* a handler that has just handled a callback whose status is not the
\* success sentinel
FailureHandled(h) ==
    hook[h].pc = "idle" /\ hook'[h].pc = "done" /\ ~Succeeded(hook'[h])

\* C12: a callback whose payload status is not the provider's success
\* sentinel posts a failure notification (chat sink configured), is
\* answered 200, and writes no object to either bucket.
C12_FailureNotifiesAcknowledgesWritesNothing ==
    [][\A h \in Handlers : FailureHandled(h) =>
          /\ slackUrl => hook'[h].sent = <<"FAILED">>
          /\ hook'[h].resp = "200"
          /\ audioBucket' = audioBucket
          /\ resultBucket' = resultBucket]_vars

(* --------------------- the resilient client on its own ------------------ *)
MaxAttempts == 3      \* largest attempt limit passed to retryFetch

\* every target behaviour over one call more than the largest limit allows,
\* so that an attempt beyond the limit would be an attempt like any other
RetryCalls ==
    { [pc |-> "call", outs |-> outs, maxRetries |-> n, result |-> NoResult] :
        outs \in OutcomeSeqs(MaxAttempts + 1), n \in 1..MaxAttempts }

InitRetry ==
    /\ mode = "dual"
    /\ slackUrl = TRUE
    /\ appsScriptUrl = TRUE
    /\ audioBucket = EmptyBucket
    /\ resultBucket = EmptyBucket
    /\ providerCalls = {}
    /\ upload = [u \in Slots |-> IdleUpload]
    /\ hook = [h \in Handlers |-> IdleHook]
    /\ download = NoDownload
    /\ retry \in RetryCalls

\* retryFetch(url, options, maxRetries) runs to its end
RetryCall ==
    /\ retry.pc = "call"
    /\ retry' = [retry EXCEPT !.pc = "ended",
                   !.result = RetryFetch(retry.outs, retry.maxRetries)]
    /\ UNCHANGED <<mode, slackUrl, appsScriptUrl, audioBucket, resultBucket,
                   providerCalls, upload, hook, download>>

SpecRetry == InitRetry /\ [][RetryCall]_vars

RetryEnded == retry.pc = "ended"

\* the first n outcomes of the target
FirstOutcomes(n) == SubSeq(retry.outs, 1, n)

\* C13: against a target answering 503, 503, success the client (default
\* limit of 3) returns the success after exactly 3 attempts, the wait before
\* the third attempt strictly longer than the wait before the second (the
\* attempt index times the base delay); against a target answering a 4xx
\* first it returns that response after exactly 1 attempt and no wait.
C13_RetryExamples ==
    RetryEnded /\ retry.maxRetries = DefaultMaxRetries =>
        /\ FirstOutcomes(3) = <<"s5xx", "s5xx", "ok">> =>
              /\ retry.result.kind = "response" /\ retry.result.status = "ok"
              /\ retry.result.attempts = 3
              /\ Len(retry.result.delays) = 2
              /\ retry.result.delays[2] > retry.result.delays[1]
              /\ \A k \in 1..2 : retry.result.delays[k] = k * BaseDelay
        /\ retry.outs[1] = "c4xx" =>
              /\ retry.result.kind = "response" /\ retry.result.status = "c4xx"
              /\ retry.result.attempts = 1
              /\ retry.result.delays = <<>>

C13_Witness ==
    /\ RetryEnded /\ retry.maxRetries = DefaultMaxRetries
    /\ FirstOutcomes(3) = <<"s5xx", "s5xx", "ok">>
    /\ retry.result.attempts = 3
    /\ retry.result.delays = <<BaseDelay, 2 * BaseDelay>>

\* the attempt that ends the call: the first one that is a success, a 4xx,
\* or the last one allowed
LastAttempt ==
    LET stops == {k \in 1..retry.maxRetries :
                     retry.outs[k] \in {"ok", "c4xx"} \/ k = retry.maxRetries}
    IN CHOOSE k \in stops : \A j \in stops : k <= j

\* C18: for every attempt limit >= 1 and every sequence of outcomes the call
\* ends after at most that many attempts with exactly one of a returned
\* response or a propagated exception; a 5xx or a throw is retried while
\* attempts remain, a 5xx on the last attempt is returned and a throw on the
\* last attempt propagates; the first success or 4xx is returned at once.
C18_RetryTerminatesWithinLimit ==
    RetryEnded =>
        /\ retry.result.attempts <= retry.maxRetries
        /\ retry.result.attempts = LastAttempt
        /\ retry.result.kind \in {"response", "throw"}
        /\ retry.result.kind = "throw" <=> retry.outs[LastAttempt] = "throw"
        /\ retry.result.kind = "response" =>
               retry.result.status = retry.outs[LastAttempt]
        /\ Len(retry.result.delays) = retry.result.attempts - 1

C18_Witness ==
    /\ RetryEnded
    /\ retry.maxRetries = MaxAttempts
    /\ \A k \in 1..(MaxAttempts - 1) : retry.outs[k] = "throw"
    /\ retry.outs[MaxAttempts] = "s5xx"
    /\ retry.result.kind = "response" /\ retry.result.status = "s5xx"
    /\ retry.result.attempts = MaxAttempts

\* uploads and downloads of the media they stored
SpecDownload == Init /\ [][handleUpload \/ handleDownload]_vars

\* the media path upload u stored its audio under, once it has done so
StoredMedia(u, path) ==
    /\ upload[u].pc \notin {"idle"}
    /\ upload[u].req.audio.present /\ ~ScopeMissing(upload[u].req)
    /\ path = AudioFileName(upload[u].req.client, upload[u].req.vid, u)
    /\ Exists(audioBucket, path)

\* C14: GET /download/{path} of a media path an upload stored answers 200
\* with the uploaded bytes and the content type given at upload (audio/wav
\* when none was given); a path that is not in the store answers 404.
C14_DownloadRoundTrip ==
    [][download' # download =>
          LET path == download'.path
          IN /\ \A u \in Slots : StoredMedia(u, path) =>
                    /\ download'.status = 200
                    /\ download'.body = upload[u].req.audio.bytes
                    /\ download'.contentType =
                           OrElse(upload[u].req.audio.type, "audio/wav")
             /\ ~Exists(audioBucket, path) => download'.status = 404]_vars

\* the provider tags under which a Partial Result of the job is stored
StoredTags(job) == {k.tag : k \in {q \in DOMAIN resultBucket : q.job = job}}

\* the providers whose results make the job complete
ExpectedTags(m) == IF m = "dual" THEN Providers ELSE {"segments"}

\* C15: in every reachable state and for every job, the provider tags that
\* have a stored Partial Result are a subset of the job's expected providers,
\* whatever callbacks were accepted (type absent or unexpected included).
C15_StoredTagsAreExpected ==
    \A job \in HookJobs : StoredTags(job) \subseteq ExpectedTags(mode)

\* callbacks one at a time, and downloads, after the uploads were answered
SpecServe == InitWebhook /\ [][handleWebhookSeq \/ handleDownload]_vars

\* C16: no webhook callback (success, failure, duplicate, unknown type) and
\* no download request writes, overwrites or deletes the Job Record or any
\* other object of the media bucket.
C16_MediaBucketUntouched == [][audioBucket' = audioBucket]_vars

C16_Witness ==
    /\ audioBucket = UploadedAll(EmptyBucket, MaxJobs)
    /\ download.status = 200
    /\ Exists(resultBucket, ResultPath("c1", "v1", "other", 1))
    /\ \E h \in Handlers :
         /\ Done(h) /\ hook[h].job = 1 /\ hook[h].arrivedComplete
         /\ SentSuccess(hook[h])

\* the provider accepted the creation of the job's task
Dispatched(job, provider) ==
    \E c \in providerCalls :
        c.job = job /\ c.provider = provider /\ c.op = "create" /\ c.result = "ok"

\* if a Job Record exists for a job then the job's media exists, both
\* provider tasks were started, and the record is the one the upload wrote
RecordImpliesMediaAndDispatches ==
    \A u \in Slots :
        HasJobInfo(u) =>
            /\ mode = "dual"
            /\ upload[u].pc = "done" /\ upload[u].resp.status = 200
            /\ Exists(audioBucket,
                      AudioFileName(upload[u].req.client, upload[u].req.vid, u))
            /\ \A p \in Providers : Dispatched(u, p)
            /\ JSONParse(audioBucket[JobInfoPath(u)].body) = JobInfo(u, upload[u])

\* a step leaves a Job Record that exists as it is
RecordKept ==
    \A u \in Slots : HasJobInfo(u) =>
        audioBucket'[JobInfoPath(u)] = audioBucket[JobInfoPath(u)]

\* C17: in the two-provider deployment the Job Record is written at most
\* once per upload and only after the media was stored and both provider
\* dispatches succeeded: a Job Record that exists implies the job's media
\* and both started provider tasks, and no later step rewrites it.
C17_RecordOnceAfterMediaAndDispatches ==
    []RecordImpliesMediaAndDispatches /\ [][RecordKept]_vars

C17_Witness ==
    \E u \in Slots :
        /\ HasJobInfo(u)
        /\ \A p \in Providers : Dispatched(u, p)
        /\ audioBucket[AudioFileName("c1", "v1", u)].contentType = "audio/mpeg"

\* C19: the single-provider deployment has no waiting state: a success
\* callback stores its result and posts the completion notification in the
\* same handling, whatever other callbacks did, and a failure callback posts
\* the failure notification (chat sink configured).
C19_SingleProviderNeverWaits ==
    mode = "single" =>
        \A h \in Handlers :
            /\ hook[h].pc \notin {"headW", "headP"}
            /\ Done(h) /\ Succeeded(hook[h]) =>
                   /\ Exists(resultBucket, OwnPath(hook[h]))
                   /\ slackUrl => hook[h].sent # <<>> /\ hook[h].sent[1] = "SUCCESS"
            /\ Done(h) /\ ~Succeeded(hook[h]) =>
                   /\ slackUrl => hook[h].sent # <<>> /\ hook[h].sent[1] = "FAILED"

C19_Witness ==
    /\ mode = "single" /\ slackUrl
    /\ \E h, g \in Handlers :
         /\ Done(h) /\ Succeeded(hook[h]) /\ ~hook[h].arrivedComplete
         /\ hook[h].sent = <<"SUCCESS">> /\ hook[h].resp = "200"
         /\ Done(g) /\ ~Succeeded(hook[g]) /\ hook[g].sent = <<"FAILED">>

(* ------------------- uploads racing with their callbacks ---------------- *)
InitRace == Init /\ mode = "dual"

\* a provider calls back with success only for a task it was given
HookStartDispatched(h, job, type, data) ==
    /\ Dispatched(job, type)
    /\ data.status = SuccessSentinel(mode)
    /\ HookStartSeq(h, job, type, data)

handleWebhookDispatched ==
    \E h \in Handlers :
        \/ \E job \in Slots, type \in Providers, data \in Payloads(mode) :
              HookStartDispatched(h, job, type, data)
        \/ HookPut(h)
        \/ HookHeadWhisperx(h)
        \/ HookHeadPyannote(h)
        \/ HookComplete(h)
        \/ HookEnd(h)

\* handleUpload of the two-provider deployment
handleUploadDual ==
    \E u \in Slots :
        \/ \E req \in UploadReqs(mode) : UploadStart(u, req)
        \/ UploadWhisperx(u)
        \/ UploadPyannote(u)
        \/ UploadRecord(u)

\* the steps of an upload interleaved with the callbacks of the providers
\* it has dispatched to
SpecRace == InitRace /\ [][handleUploadDual \/ handleWebhookDispatched]_vars

\* C20: for a job whose upload succeeds, a success callback of one of its
\* dispatched providers is never answered not-found, whenever it arrives
\* between the steps of the upload: its Job Record is there and its result
\* is stored.
C20_DispatchedCallbackFindsJobRecord ==
    \A h \in Handlers :
        LET hk == hook[h]
        IN (/\ Done(h) /\ Succeeded(hk)
            /\ hk.job \in Slots /\ hk.type \in Providers
            /\ Dispatched(hk.job, hk.type)
            /\ UploadDone(hk.job) /\ upload[hk.job].resp.status = 200)
           => hk.resp # "404"

\* the keys whose object a step adds, replaces or removes
ChangedResults ==
    {k \in DOMAIN resultBucket \cup DOMAIN resultBucket' :
        \/ k \notin DOMAIN resultBucket
        \/ k \notin DOMAIN resultBucket'
        \/ resultBucket'[k] # resultBucket[k]}

\* the (provider tag, job id) a callback is about
OwnResult(hk, k) ==
    /\ k.job = hk.job
    /\ k.tag = IF mode = "dual" THEN hk.type ELSE "segments"

\* a step that changes the result bucket is the one put of one handling,
\* and it changes at most the object of the callback's own tag and job
OnlyOwnResultWritten ==
    ChangedResults # {} =>
        \E h \in Handlers :
            /\ hook[h].pc = "put" /\ hook'[h].pc \notin {"put", "idle"}
            /\ \A g \in Handlers \ {h} : hook'[g] = hook[g]
            /\ Cardinality(ChangedResults) = 1
            /\ \A k \in ChangedResults : OwnResult(hook[h], k)

\* a handling that has posted the completion notification has its own
\* result in the store
NotifiedAfterWrite ==
    \A h \in Handlers :
        SentSuccess(hook[h]) =>
            \E k \in DOMAIN resultBucket :
                /\ OwnResult(hook[h], k)
                /\ JSONParse(resultBucket[k].body) = hook[h].data.output

\* C21: handling one callback writes the result bucket at most once, only at
\* the path of the callback's own provider tag and job id, never touching
\* the other provider's result or a result of another job, and its
\* completion notification is posted only after that write.
C21_OneWriteToOwnPathBeforeNotifying ==
    []NotifiedAfterWrite /\ [][OnlyOwnResultWritten]_vars

C21_Witness ==
    /\ mode = "dual" /\ slackUrl
    /\ \E h, g \in Handlers :
         /\ hook[h].type = "pyannote" /\ hook[g].type = "whisperx"
         /\ hook[h].job = hook[g].job
         /\ Done(h) /\ SentSuccess(hook[h]) /\ ~hook[h].arrivedComplete
         /\ hook[g].pc = "headW"
         /\ Stored(hook[h].job, "whisperx") /\ Stored(hook[h].job, "pyannote")

\* the creation calls made to the diarization provider
PyannoteCalls == {c \in providerCalls : c.provider = "pyannote" /\ c.op = "create"}

\* C22: for every speaker estimate e that is a positive integer, the
\* diarization provider is dispatched with min_speakers = max(1, e - 1) and
\* max_speakers = e + 2, so 1 <= min_speakers <= max_speakers.
C22_SpeakerBoundsFromEstimate ==
    \A c \in PyannoteCalls :
        \E e \in Estimates :
            /\ upload[c.job].req.numSpeakers = ToString(e)
            /\ c.minSpeakers = (IF e - 1 >= 1 THEN e - 1 ELSE 1)
            /\ c.maxSpeakers = e + 2
            /\ 1 <= c.minSpeakers /\ c.minSpeakers <= c.maxSpeakers

C22_Witness ==
    \E c \in PyannoteCalls :
        /\ upload[c.job].req.numSpeakers = "1"
        /\ c.minSpeakers = 1 /\ c.maxSpeakers = 3
        /\ c.result = "ok"

====
